---------------------------- MODULE Spec2Model ----------------------------
(***************************************************************************)
(* A model of the StickyStudy deck synchronisation code                    *)
(* (src/stickystudy/deck.py and the sync-subsets subcommand of             *)
(* src/stickystudy/main.py).                                               *)
(*                                                                         *)
(* Text is modelled as a sequence of lexical tokens: a string is a         *)
(* sequence of tokens (each token a TLA+ string), a line of a deck file is *)
(* the sequence of its tab-separated fields, and a file is the sequence of *)
(* its lines.  A pandas DataFrame is the sequence of its rows, each row a  *)
(* record of the five deck columns plus the derived 'timestamp' column.    *)
(***************************************************************************)
EXTENDS Integers, Sequences, FiniteSets, TLC

VARIABLES
    self,       \* left operand / receiver of a deck operation
    other,      \* right operand / argument of a deck operation
    op,         \* the deck operation applied last ("" before any)
    out,        \* its value
    rev,        \* the value of other | self, once it has been taken too
    kanji,      \* the kanji argument of filter_kanji
    must_include_kanji,     \* the flag argument of filter_kanji
    file,       \* the lines of the deck file that is loaded
    dest,       \* the lines of the file that is saved to
    subsets,    \* sync-subsets: the entries <<deck, subdecks>> of the JSON mapping
    files,      \* sync-subsets: the deck files that exist, by deck name
    pc,         \* sync-subsets: where SyncSubsets.main stands
    parents,    \* sync-subsets: the parents Pass 1 has still to process
    pairs,      \* sync-subsets: the <<parent, child>> pairs Pass 2 has still to process
    files0,     \* sync-subsets: the deck files as they were before the run
    files1,     \* sync-subsets: the deck files as Pass 1 left them
    log,        \* sync-subsets: the loads and saves of the run, in order
    run         \* sync-subsets: the number of the run (0 when there is none)

opvars == <<self, other, op, out, rev, kanji, must_include_kanji, file, dest>>

syncvars == <<subsets, files, pc, parents, pairs, files0, files1, log, run>>

vars == <<opvars, syncvars>>

---------------------------------------------------------------------------
(* Bounds of the model.                                                    *)

\* card and deck timestamps range over 1..MaxStamp
MaxStamp == 2

---------------------------------------------------------------------------
(* Strings, cells and lines.                                               *)

\* the decimal text of an integer, str(i)
Digits(i) == ToString(i)

NumberTokens == {Digits(i) : i \in 0..(MaxStamp + 1)}

\* int(s): defined when s is one run of digits, ValueError otherwise
IsInt(s) == Len(s) = 1 /\ s[1] \in NumberTokens

IntOf(s) == CHOOSE i \in 0..(MaxStamp + 1) : Digits(i) = s[1]

\* s.split(sep)[0]: the tokens of s before the first sep (all of s if none)
SplitFirst(s, sep) ==
    LET hits == {i \in 1..Len(s) : s[i] = sep}
    IN  IF hits = {} THEN s
        ELSE SubSeq(s, 1, (CHOOSE i \in hits : \A j \in hits : i <= j) - 1)

\* s[1:-1]: s without its first and last character
StripEnds(s) == IF Len(s) <= 2 THEN <<>> ELSE SubSeq(s, 2, Len(s) - 1)

\* the float NaN pandas stores for a missing cell; every other cell is a str
NaN == <<"nan">>

\* pd.NA in the Int64 'timestamp' column: a timestamp is {} or {t}
NA == {}

\* the strings pandas.read_table reads as missing (besides the empty field)
NA_VALUES == {<<"NA">>, <<"nan">>, <<"null">>}

\* what read_table makes of one field of a data row
ParseCell(field) == IF field = <<>> \/ field \in NA_VALUES THEN NaN ELSE field

\* what DataFrame.to_csv writes for one cell
FormatCell(cell) == IF cell = NaN THEN <<>> ELSE cell

\* the study data "[t_rest]" and the empty study data
Stamped(t, rest) == <<"[", Digits(t), "_", rest, "]">>

\* line 2 of a header: a run of dashes
DashLine == << <<"-----">> >>

\* line 1 of a header: five tab-separated fields, the fifth "<timestamp>_..."
HeaderLine(title, t) == << <<title>>, <<"on">>, <<"kun">>, <<"answer">>, <<Digits(t), "_", "sync">> >>

\* line.startswith('-' * 5)
StartsWithDashes(line) == Len(line) >= 1 /\ Len(line[1]) >= 1 /\ line[1][1] = "-----"

---------------------------------------------------------------------------
(* Rows and decks.                                                         *)

\* DECK_COLS[:-1], the columns that identify a card
Key(r) == <<r.question, r.on, r.kun, r.answer>>

Keys(df) == {Key(df[i]) : i \in 1..Len(df)}

\* a card as the claims speak of it: identity key and study data, where the
\* two in-memory forms of empty study data (NaN and '') are one value
Card(r) == <<Key(r), FormatCell(r.study_data)>>

Cards(df) == {Card(df[i]) : i \in 1..Len(df)}

UniqueKeys(df) == \A i, j \in 1..Len(df) : Key(df[i]) = Key(df[j]) => i = j

\* the subsequence of s at the positions in I
Pick(s, I) ==
    LET F[n \in 0..Len(s)] ==
            IF n = 0 THEN <<>>
            ELSE IF n \in I THEN Append(F[n - 1], s[n]) ELSE F[n - 1]
    IN  F[Len(s)]

\* the value of an operation: a deck, None, or an exception raised
Deck(header, data) == [tag |-> "deck", header |-> header, data |-> data]

None == [tag |-> "none", header |-> <<>>, data |-> <<>>]

Raise == [tag |-> "raise", header |-> <<>>, data |-> <<>>]

NotRun == [tag |-> "notrun", header |-> <<>>, data |-> <<>>]

Returned(r) == r.tag = "deck"

\* StickyStudyDeck.timestamp raises (IndexError, ValueError) on a first header
\* line whose fifth field does not begin with a number
TimestampRaises(d) ==
    /\ d.header # <<>>
    /\ \/ Len(d.header[1]) < 5
       \/ ~IsInt(SplitFirst(d.header[1][5], "_"))

\* StickyStudyDeck.timestamp: None (NA) whenever the header is None or empty
timestamp(d) ==
    IF d.header # <<>> THEN {IntOf(SplitFirst(d.header[1][5], "_"))} ELSE NA

---------------------------------------------------------------------------
(* StickyStudyDeck.load and StickyStudyDeck.save.                          *)

\* pd.read_table(infile, skiprows = skiprows, names = DECK_COLS)
ReadTable(lines, skiprows) ==
    [i \in 1..(Len(lines) - skiprows) |->
        LET l == lines[i + skiprows]
        IN  [question   |-> ParseCell(l[1]),
             on         |-> ParseCell(l[2]),
             kun        |-> ParseCell(l[3]),
             answer     |-> ParseCell(l[4]),
             study_data |-> ParseCell(l[5])]]

\* int(sd[1:-1].split('_')[0]) raises ValueError
RowTimestampRaises(sd) == sd # NaN /\ ~IsInt(SplitFirst(StripEnds(sd), "_"))

\* int(sd[1:-1].split('_')[0]) if isinstance(sd, str) else pd.NA
RowTimestamp(sd) ==
    IF sd # NaN THEN {IntOf(SplitFirst(StripEnds(sd), "_"))} ELSE NA

WithTimestamp(r) ==
    [question |-> r.question, on |-> r.on, kun |-> r.kun, answer |-> r.answer,
     study_data |-> r.study_data, timestamp |-> RowTimestamp(r.study_data)]

\* the header list load builds: always the first two lines of the file
LoadHeader(lines) == <<lines[1], lines[2]>>

\* StickyStudyDeck.load; next(f) raises StopIteration on a file of fewer than
\* two lines
load(lines) ==
    IF Len(lines) < 2 THEN Raise
    ELSE LET header   == LoadHeader(lines)
             skiprows == IF StartsWithDashes(header[2]) THEN 2 ELSE 0
             df       == ReadTable(lines, skiprows)
         IN  IF \E i \in 1..Len(df) : RowTimestampRaises(df[i].study_data)
             THEN Raise
             ELSE Deck(header, [i \in 1..Len(df) |-> WithTimestamp(df[i])])

\* one row as to_csv writes it: the five DECK_COLS, tab-separated
FormatRow(r) ==
    <<FormatCell(r.question), FormatCell(r.on), FormatCell(r.kun),
      FormatCell(r.answer), FormatCell(r.study_data)>>

\* the lines save starts from: the header, written with mode 'w', or, when
\* the deck has no header, whatever outfile already holds (mode 'a')
SaveHead(d, existing) == IF d.header # <<>> THEN d.header ELSE existing

\* StickyStudyDeck.save: the content of outfile afterwards, `existing' being
\* its content before (<<>> when there was no such file)
save(d, existing) ==
    SaveHead(d, existing) \o [i \in 1..Len(d.data) |-> FormatRow(d.data[i])]

---------------------------------------------------------------------------
(* StickyStudyDeck.__or__                                                  *)

\* DataFrame.sort_values(by = 'timestamp'): kind = 'quicksort' is not stable,
\* so rows of equal timestamp come out in any order; na_position = 'last'
\* puts the rows without a timestamp at the end, in their original order.
\* p[i] is the position in df of the i-th row of the sorted frame.
IsSortOrder(df, p) ==
    \A i, j \in 1..Len(df) :
        i < j =>
            LET ti == df[p[i]].timestamp
                tj == df[p[j]].timestamp
            IN  /\ ti = NA => (tj = NA /\ p[i] < p[j])
                /\ (ti # NA /\ tj # NA) =>
                       \A x \in ti : \A y \in tj : x <= y

SortOrders(df) == {p \in Permutations(1..Len(df)) : IsSortOrder(df, p)}

\* (a slip: the sort_values call left out)
SortValues_Unsorted(df, p) == df

SortValues(df, p) == [i \in 1..Len(df) |-> df[p[i]]]

\* (a slip: keep = 'last' where 'first' is meant)
DropDuplicatesFirst_KeepLast(df) ==
    Pick(df, {i \in 1..Len(df) :
                 \A j \in (i + 1)..Len(df) : Key(df[j]) # Key(df[i])})

\* DataFrame.drop_duplicates(DECK_COLS[:-1], keep = 'first')
DropDuplicatesFirst(df) ==
    Pick(df, {i \in 1..Len(df) :
                 \A j \in 1..(i - 1) : Key(df[j]) # Key(df[i])})

\* (a slip: keep = 'first' where 'last' is meant)
DropDuplicatesLast_KeepFirst(df) == DropDuplicatesFirst(df)

\* DataFrame.drop_duplicates(DECK_COLS[:-1], keep = 'last')
DropDuplicatesLast(df) ==
    Pick(df, {i \in 1..Len(df) :
                 \A j \in (i + 1)..Len(df) : Key(df[j]) # Key(df[i])})

\* pd.concat([a, b])
Concat(a, b) == a \o b

\* (a slip: the drop_duplicates call left out)
OrData_NoDrop(a, b, p) == SortValues(Concat(a.data, b.data), p)

\* the data frame of a | b under the sort order p
OrData(a, b, p) == DropDuplicatesLast(SortValues(Concat(a.data, b.data), p))

\* "use whichever header is newest"
OrHeaderRaises(a, b) ==
    \/ TimestampRaises(b)
    \/ timestamp(b) # NA /\ TimestampRaises(a)

\* (a slip: '<=' where '>=' is meant, so the older header is kept)
OrHeader_KeepOlder(a, b) ==
    IF timestamp(b) = NA THEN a.header
    ELSE IF timestamp(a) = NA THEN b.header
    ELSE IF \A x \in timestamp(a) : \A y \in timestamp(b) : x <= y
         THEN a.header ELSE b.header

OrHeader(a, b) ==
    IF timestamp(b) = NA THEN a.header
    ELSE IF timestamp(a) = NA THEN b.header
    ELSE IF \A x \in timestamp(a) : \A y \in timestamp(b) : x >= y
         THEN a.header ELSE b.header

\* a | b, the sort having produced the order p
Or(a, b, p) ==
    IF OrHeaderRaises(a, b) THEN Raise
    ELSE Deck(OrHeader(a, b), OrData(a, b, p))

\* the values a | b can take
OrResults(a, b) ==
    IF OrHeaderRaises(a, b) THEN {Raise}
    ELSE {Or(a, b, p) : p \in SortOrders(Concat(a.data, b.data))}

---------------------------------------------------------------------------
(* StickyStudyDeck.update_other                                            *)

\* (a slip: the copy keeps the study data of the source)
Zeroed_Kept(df) == df

\* df = deepcopy(self.data); df['study_data'] = '' : the timestamp column of
\* the copy is left as it was
Zeroed(df) ==
    [i \in 1..Len(df) |-> [df[i] EXCEPT !.study_data = <<>>]]

update_other(a, b) ==
    IF b = None THEN Deck(<<>>, Zeroed(a.data))
    ELSE Deck(b.header, DropDuplicatesFirst(Concat(b.data, Zeroed(a.data))))

---------------------------------------------------------------------------
(* StickyStudyDeck.filter_kanji                                            *)

\* the characters of the questions; the first two are kanji
Chars == {"kanji1", "kanji2", "kana"}

\* stickystudy.utils.is_kanji(c)
is_kanji(c) == c \in {"kanji1", "kanji2"}

\* the loop of is_valid (must_include_kanji = True) from character i on
RECURSIVE IsValidLoop(_, _, _, _)
IsValidLoop(s, i, valid, kanji_set) ==
    IF i > Len(s) THEN valid
    ELSE IF is_kanji(s[i])
         THEN IF s[i] \notin kanji_set THEN FALSE
              ELSE IsValidLoop(s, i + 1, TRUE, kanji_set)
         ELSE IsValidLoop(s, i + 1, valid, kanji_set)

\* (a slip: 'valid' starts out True, so a question without kanji passes)
is_valid_StartsTrue(s, kanji_set, must) ==
    IF must THEN IsValidLoop(s, 1, TRUE, kanji_set)
    ELSE ~\E i \in 1..Len(s) : is_kanji(s[i]) /\ s[i] \notin kanji_set

\* is_valid, in the variant the flag selects
is_valid(s, kanji_set, must) ==
    IF must THEN IsValidLoop(s, 1, FALSE, kanji_set)
    ELSE ~\E i \in 1..Len(s) : is_kanji(s[i]) /\ s[i] \notin kanji_set

\* iterating a question that is NaN (a float) raises TypeError
filter_kanji(d, kanji_set, must) ==
    IF \E i \in 1..Len(d.data) : d.data[i].question = NaN THEN Raise
    ELSE Deck(d.header,
              Pick(d.data, {i \in 1..Len(d.data) :
                               is_valid(d.data[i].question, kanji_set, must)}))

---------------------------------------------------------------------------
(* The subset graph of SyncSubsets.main.  The mapping read from the JSON   *)
(* file is the sequence of its entries <<deck, subdecks>>, in file order.  *)
(* A graph is its nodes, in the order networkx added them, and the         *)
(* successors of each node, in the order the edges were added.             *)

\* the sequence s with x appended unless it is there already
AddOnce(s, x) == IF \E i \in 1..Len(s) : s[i] = x THEN s ELSE Append(s, x)

\* the edges <<subdeck, deck>> in the order main adds them
RECURSIVE EntryEdges(_, _)
EntryEdges(deck, subdecks) ==
    IF subdecks = <<>> THEN <<>>
    ELSE <<<<Head(subdecks), deck>>>> \o EntryEdges(deck, Tail(subdecks))

RECURSIVE EdgeList(_)
EdgeList(entries) ==
    IF entries = <<>> THEN <<>>
    ELSE EntryEdges(entries[1][1], entries[1][2]) \o EdgeList(Tail(entries))

\* nx.DiGraph.add_edge(u, v) for each edge of the list, in order
RECURSIVE AddEdges(_, _)
AddEdges(g, edges) ==
    IF edges = <<>> THEN g
    ELSE LET u  == edges[1][1]
             v  == edges[1][2]
             ns == AddOnce(AddOnce(g.nodes, u), v)
             sc == [n \in {ns[i] : i \in 1..Len(ns)} |->
                       LET old == IF n \in DOMAIN g.succ THEN g.succ[n] ELSE <<>>
                       IN  IF n = u THEN AddOnce(old, v) ELSE old]
         IN  AddEdges([nodes |-> ns, succ |-> sc], Tail(edges))

EmptyGraph == [nodes |-> <<>>, succ |-> <<>>]

\* the graph main builds: an edge from every subdeck to its deck
DiGraph(entries) == AddEdges(EmptyGraph, EdgeList(entries))

\* the edges of g in the order DiGraph.edges yields them
RECURSIVE NodeEdges(_, _)
NodeEdges(u, succs) ==
    IF succs = <<>> THEN <<>>
    ELSE <<<<u, Head(succs)>>>> \o NodeEdges(u, Tail(succs))

RECURSIVE GraphEdges(_, _)
GraphEdges(g, i) ==
    IF i > Len(g.nodes) THEN <<>>
    ELSE NodeEdges(g.nodes[i], g.succ[g.nodes[i]]) \o GraphEdges(g, i + 1)

Flip(edges) == [i \in 1..Len(edges) |-> <<edges[i][2], edges[i][1]>>]

\* DiGraph.reverse(): the same nodes in the same order, every edge turned
Reverse(g) ==
    AddEdges([nodes |-> g.nodes, succ |-> [n \in DOMAIN g.succ |-> <<>>]],
             Flip(GraphEdges(g, 1)))

InDegree(g, v) ==
    Cardinality({u \in DOMAIN g.succ : \E i \in 1..Len(g.succ[u]) : g.succ[u][i] = v})

\* one step of the inner loop of topological_generations: the in-degree of
\* each successor drops by one, and a successor that reaches 0 joins the
\* next generation.  st = [indeg, next]
RECURSIVE RelaxSuccessors(_, _)
RelaxSuccessors(st, succs) ==
    IF succs = <<>> THEN st
    ELSE LET c == Head(succs)
             d == st.indeg[c] - 1
         IN  RelaxSuccessors(
                 [indeg |-> [st.indeg EXCEPT ![c] = d],
                  next  |-> IF d = 0 THEN Append(st.next, c) ELSE st.next],
                 Tail(succs))

RECURSIVE RelaxGeneration(_, _, _)
RelaxGeneration(g, st, gen) ==
    IF gen = <<>> THEN st
    ELSE RelaxGeneration(g, RelaxSuccessors(st, g.succ[Head(gen)]), Tail(gen))

\* nx.topological_generations, flattened: the nodes generation by generation
RECURSIVE Generations(_, _, _)
Generations(g, indeg, gen) ==
    IF gen = <<>> THEN <<>>
    ELSE LET st == RelaxGeneration(g, [indeg |-> indeg, next |-> <<>>], gen)
         IN  gen \o Generations(g, st.indeg, st.next)

\* nx.topological_sort(g); on a cyclic graph it leaves nodes out (and raises)
topological_sort(g) ==
    LET indeg == [n \in DOMAIN g.succ |-> InDegree(g, n)]
    IN  Generations(g, indeg, SelectSeq(g.nodes, LAMBDA n : indeg[n] = 0))

\* (a slip: the check skipped, as when the assert statement is compiled out)
is_directed_acyclic_graph_Unchecked(g) == TRUE

\* nx.is_directed_acyclic_graph(g)
is_directed_acyclic_graph(g) == Len(topological_sort(g)) = Len(g.nodes)

---------------------------------------------------------------------------
(* SyncSubsets.sync_children_to_parents and sync_parent_to_child.  `fs' is *)
(* the deck directory: a function from the names of the decks that have a  *)
(* file to the lines of the file (get_deck_path is one-to-one on the deck  *)
(* names used).  Each handler yields the set of its possible outcomes      *)
(* [raised, files, events]: whether an exception ended it, the directory   *)
(* afterwards, and its loads and saves in order.                           *)

\* StickyStudyDeck.load(get_deck_path(name)): FileNotFoundError without a file
LoadDeck(fs, name) == IF name \in DOMAIN fs THEN load(fs[name]) ELSE Raise

\* d.save(get_deck_path(name))
SaveDeck(fs, name, d) ==
    [n \in DOMAIN fs \cup {name} |->
        IF n = name
        THEN save(d, IF name \in DOMAIN fs THEN fs[name] ELSE <<>>)
        ELSE fs[n]]

\* (a slip: the save made before the decks are loaded)
Outcome_SaveFirst(raised, fs, events) ==
    [raised |-> raised, files |-> fs,
     events |-> [i \in 1..Len(events) |-> events[Len(events) + 1 - i]]]

Outcome(raised, fs, events) == [raised |-> raised, files |-> fs, events |-> events]

\* the loop "for child in children": st = [d, events], d being None before
\* the first child and Raise once a load or a union has raised
RECURSIVE UnionOfSubdecks(_, _, _)
UnionOfSubdecks(fs, children, st) ==
    IF children = <<>> \/ st.d = Raise THEN {st}
    ELSE LET child == Head(children)
             d1    == LoadDeck(fs, child)
             ev    == Append(st.events, <<"load", child>>)
         IN  IF d1 = Raise THEN {[d |-> Raise, events |-> ev]}
             ELSE IF st.d = None
                  THEN UnionOfSubdecks(fs, Tail(children), [d |-> d1, events |-> ev])
                  ELSE UNION {UnionOfSubdecks(fs, Tail(children), [d |-> r, events |-> ev]) :
                                 r \in OrResults(st.d, d1)}

\* (a slip: the restriction to the keys of the subdecks left out)
LocIntersection_Unrestricted(df2, df1) == df2

\* df2.loc[df2.index.intersection(df1.index)]: the rows of df2 whose key is
\* in df1
LocIntersection(df2, df1) ==
    Pick(df2, {i \in 1..Len(df2) : Key(df2[i]) \in Keys(df1)})

\* the part of sync_children_to_parents after the loop, d being the union
\* of the subdecks
MergeIntoParent(fs, parent, d, events) ==
    IF parent \in DOMAIN fs
    THEN LET deck == LoadDeck(fs, parent)
             ev   == Append(events, <<"load", parent>>)
         IN  IF deck = Raise THEN {Outcome(TRUE, fs, ev)}
             ELSE LET d1 == Deck(d.header, d.data)
                      d2 == Deck(deck.header, LocIntersection(deck.data, d.data))
                  IN  {IF r = Raise THEN Outcome(TRUE, fs, ev)
                       ELSE Outcome(FALSE, SaveDeck(fs, parent, r),
                                    Append(ev, <<"save", parent>>)) :
                          r \in OrResults(d1, d2)}
    ELSE {Outcome(FALSE, SaveDeck(fs, parent, d), Append(events, <<"save", parent>>))}

sync_children_to_parents(fs, parent, children) ==
    UNION {IF st.d = Raise THEN {Outcome(TRUE, fs, st.events)}
           ELSE MergeIntoParent(fs, parent, st.d, st.events) :
              st \in UnionOfSubdecks(fs, children, [d |-> None, events |-> <<>>])}

\* parent_deck.data.set_index(DECK_COLS[:-1]).loc[df2.index] raises KeyError
\* when a key of the child is not in the parent
LocRaises(df1, df2) == ~(Keys(df2) \subseteq Keys(df1))

\* (a slip: the parent's frame taken whole, not looked up by the child's keys)
Loc_WholeParent(df1, df2) == df1

\* the rows of the parent for the keys of the child, in the child's order
RECURSIVE Loc(_, _)
Loc(df1, df2) ==
    IF df2 = <<>> THEN <<>>
    ELSE SelectSeq(df1, LAMBDA r : Key(r) = Key(Head(df2))) \o Loc(df1, Tail(df2))

sync_parent_to_child(fs, parent, child) ==
    LET parent_deck == LoadDeck(fs, parent)
        ev1         == <<<<"load", parent>>>>
    IN  IF parent_deck = Raise THEN {Outcome(TRUE, fs, ev1)}
        ELSE LET child_deck == LoadDeck(fs, child)
                 ev2        == Append(ev1, <<"load", child>>)
             IN  IF child_deck = Raise \/ LocRaises(parent_deck.data, child_deck.data)
                 THEN {Outcome(TRUE, fs, ev2)}
                 ELSE LET d1 == Deck(parent_deck.header, Loc(parent_deck.data, child_deck.data))
                          d2 == Deck(child_deck.header, child_deck.data)
                      IN  {IF r = Raise THEN Outcome(TRUE, fs, ev2)
                           ELSE Outcome(FALSE, SaveDeck(fs, child, r),
                                        Append(ev2, <<"save", child>>)) :
                              r \in OrResults(d1, d2)}

---------------------------------------------------------------------------
(* SyncSubsets.main                                                        *)

\* parent in subsets
InSubsets(entries, deck) == \E i \in 1..Len(entries) : entries[i][1] = deck

\* subsets[parent]
Subdecks(entries, deck) ==
    entries[CHOOSE i \in 1..Len(entries) : entries[i][1] = deck][2]

\* the parents the Pass 1 loop calls sync_children_to_parents for, in order
Pass1Parents(entries) ==
    SelectSeq(topological_sort(DiGraph(entries)),
              LAMBDA n : InSubsets(entries, n) /\ Subdecks(entries, n) # <<>>)

\* the <<parent, child>> calls of the Pass 2 loops, in order
RECURSIVE Pass2Calls(_, _)
Pass2Calls(g, order) ==
    IF order = <<>> THEN <<>>
    ELSE NodeEdges(Head(order), g.succ[Head(order)]) \o Pass2Calls(g, Tail(order))

\* (a slip: the calls made for the last parent of the order first)
Pass2Pairs_Backwards(entries) ==
    LET dg    == Reverse(DiGraph(entries))
        calls == Pass2Calls(dg, topological_sort(dg))
    IN  [i \in 1..Len(calls) |-> calls[Len(calls) + 1 - i]]

Pass2Pairs(entries) ==
    LET dg == Reverse(DiGraph(entries))
    IN  Pass2Calls(dg, topological_sort(dg))

---------------------------------------------------------------------------
(* The decks the operations are applied to.                                *)

\* the identity columns of two cards; the second has no kun reading
KEY_TREE == << <<"kanji1">>, <<"moku">>, <<"ki">>, <<"tree">> >>

KEY_MOUNTAIN == << <<"kanji2">>, <<"san">>, <<>>, <<"mountain">> >>

\* the study data a card of a deck file carries: none, or "[t_rest]"
StudyData ==
    {<<>>} \cup {Stamped(t, "abc") : t \in 1..MaxStamp} \cup {Stamped(1, "def")}

RowLine(k, sd) == <<k[1], k[2], k[3], k[4], sd>>

\* the data rows of a deck file over one key: no row, or one row
RowLines(k) == {<<>>} \cup {<<RowLine(k, sd)>> : sd \in StudyData}

\* the data rows of a deck file: at most one row for each key
RowLineSeqs == {r1 \o r2 : r1 \in RowLines(KEY_TREE), r2 \in RowLines(KEY_MOUNTAIN)}

FileHeader(title, t) == <<HeaderLine(title, t), DashLine>>

FileHeaders == {FileHeader("X", t) : t \in 1..MaxStamp} \cup {FileHeader("Y", 1)}

\* deck files with a header, and deck files that are bare card tables
DeckFiles == {h \o rows : h \in FileHeaders \cup {<<>>}, rows \in RowLineSeqs}

\* the decks load returns for them
LoadedDecks == {load(f) : f \in DeckFiles} \ {Raise}

\* decks constructed with header = None around a loaded data frame
BareDecks == {Deck(<<>>, load(FileHeader("X", 1) \o rows).data) : rows \in RowLineSeqs}

Decks == LoadedDecks \cup BareDecks

\* the variables of the operations a specification does not exercise
FilterIdle == kanji = {} /\ must_include_kanji = FALSE

FileIdle == file = <<>> /\ dest = <<>>

SyncIdle ==
    /\ subsets = <<>>
    /\ files = <<>>
    /\ pc = "idle"
    /\ parents = <<>>
    /\ pairs = <<>>
    /\ files0 = <<>>
    /\ files1 = <<>>
    /\ log = <<>>
    /\ run = 0

---------------------------------------------------------------------------
(* Specification SpecUnion: two decks and their unions self | other and    *)
(* other | self.                                                           *)

InitUnion ==
    /\ self \in Decks
    /\ other \in Decks
    /\ op = ""
    /\ out = NotRun
    /\ rev = NotRun
    /\ FilterIdle
    /\ FileIdle
    /\ SyncIdle

\* out = self | other
OrSelfOther ==
    /\ op = ""
    /\ out' \in OrResults(self, other)
    /\ op' = "or"
    /\ UNCHANGED <<self, other, rev, kanji, must_include_kanji, file, dest, syncvars>>

\* rev = other | self
OrOtherSelf ==
    /\ op = "or"
    /\ rev = NotRun
    /\ rev' \in OrResults(other, self)
    /\ UNCHANGED <<self, other, op, out, kanji, must_include_kanji, file, dest, syncvars>>

NextUnion == OrSelfOther \/ OrOtherSelf

SpecUnion == InitUnion /\ [][NextUnion]_vars

---------------------------------------------------------------------------
(* Properties of the union, checked under SpecUnion.                       *)

Rows(d) == {d.data[i] : i \in 1..Len(d.data)}

\* x carries an integer timestamp strictly below the integer timestamp of y
Older(x, y) ==
    /\ x.timestamp # NA
    /\ y.timestamp # NA
    /\ \A t1 \in x.timestamp : \A t2 \in y.timestamp : t1 < t2

\* deck r has exactly one row with the key of y, and that row is y
HoldsExactly(r, y) ==
    /\ Cardinality({i \in 1..Len(r.data) : Key(r.data[i]) = Key(y)}) = 1
    /\ \A i \in 1..Len(r.data) : Key(r.data[i]) = Key(y) => r.data[i] = y

\* the rows of a and b that share their key with a row of the other deck
SharedPairs(a, b) == {xy \in Rows(a) \X Rows(b) : Key(xy[1]) = Key(xy[2])}

RecencyWinsIn(r, a, b) ==
    Returned(r) =>
        \A xy \in SharedPairs(a, b) :
            /\ Older(xy[1], xy[2]) => HoldsExactly(r, xy[2])
            /\ Older(xy[2], xy[1]) => HoldsExactly(r, xy[1])

\* C1: whenever a key is in both operands with integer timestamps t1 < t2,
\* self | other and other | self each hold exactly one card with that key,
\* and it is the card (study data included) that carries t2.
C1_RecencyWins ==
    /\ RecencyWinsIn(out, self, other)
    /\ RecencyWinsIn(rev, other, self)

C1_Witness ==
    /\ Returned(out)
    /\ Returned(rev)
    /\ \E xy \in SharedPairs(self, other) : Older(xy[1], xy[2])
    /\ \E xy \in SharedPairs(self, other) : Older(xy[2], xy[1])

AbsentLosesIn(r, a, b) ==
    Returned(r) =>
        \A xy \in SharedPairs(a, b) :
            /\ (xy[1].timestamp = NA /\ xy[2].timestamp # NA) => HoldsExactly(r, xy[2])
            /\ (xy[2].timestamp = NA /\ xy[1].timestamp # NA) => HoldsExactly(r, xy[1])

\* C2: whenever a key is in both operands, stamped in one and without study
\* data in the other, self | other and other | self both keep the stamped card.
C2_AbsentIsLowest ==
    /\ AbsentLosesIn(out, self, other)
    /\ AbsentLosesIn(rev, other, self)

\* C4: for a deck D with unique keys, D | D has the cards of D, each once,
\* and the header of D.
C4_Idempotent ==
    (self = other /\ Returned(out) /\ UniqueKeys(self.data)) =>
        /\ Cards(out.data) = Cards(self.data)
        /\ Len(out.data) = Len(self.data)
        /\ out.header = self.header

C4_Witness ==
    /\ self = other
    /\ Returned(out)
    /\ Len(self.data) = 2
    /\ self.header # <<>>
    /\ \E x \in Rows(self) : x.timestamp # NA

\* C5 as stated: self | other and other | self hold the same set of cards,
\* and their headers differ only when the two deck timestamps are equal.
C5_Commutative ==
    (Returned(out) /\ Returned(rev)) =>
        /\ Cards(out.data) = Cards(rev.data)
        /\ out.header # rev.header => timestamp(self) = timestamp(other)

\* no key of both decks carries one integer timestamp with two study data
NoTieConflict(a, b) ==
    \A xy \in SharedPairs(a, b) :
        (xy[1].timestamp = xy[2].timestamp /\ xy[1].timestamp # NA)
            => xy[1].study_data = xy[2].study_data

\* C5 amended: when no key present in both decks carries the same integer
\* timestamp with different study data in the two, self | other and
\* other | self hold the same set of cards, and their headers differ only
\* when the two deck timestamps are equal.
C5_CommutativeUnlessTie ==
    (Returned(out) /\ Returned(rev) /\ NoTieConflict(self, other)) =>
        /\ Cards(out.data) = Cards(rev.data)
        /\ out.header # rev.header => timestamp(self) = timestamp(other)

C5_Witness ==
    /\ Returned(out)
    /\ Returned(rev)
    /\ NoTieConflict(self, other)
    /\ \E xy \in SharedPairs(self, other) : Older(xy[1], xy[2])
    /\ out.header # rev.header

TieLastWinsIn(r, a, b) ==
    Returned(r) =>
        /\ \A xy \in SharedPairs(a, b) :
               xy[1].timestamp = xy[2].timestamp => HoldsExactly(r, xy[2])
        /\ \A x \in Rows(a) : Key(x) \notin Keys(b.data) => HoldsExactly(r, x)
        /\ \A y \in Rows(b) : Key(y) \notin Keys(a.data) => HoldsExactly(r, y)
        /\ Keys(r.data) = Keys(a.data) \cup Keys(b.data)

\* C10: for a key in both operands with equal timestamps (the same integer,
\* or both absent) A | B keeps B's card; a key in one operand only keeps its
\* card unchanged; keys(A | B) = keys(A) union keys(B).
C10_TieLastWins ==
    /\ TieLastWinsIn(out, self, other)
    /\ TieLastWinsIn(rev, other, self)

\* the header of d is absent, or its first line carries a deck timestamp
HeaderReadable(d) == ~TimestampRaises(d)

HasHeaderOf(d) == d.header # <<>>

\* the deck timestamp of a is strictly larger than that of b
Newer(a, b) == \A x \in timestamp(a) : \A y \in timestamp(b) : x > y

HeaderSelectedIn(r, a, b) ==
    /\ (HeaderReadable(a) /\ HeaderReadable(b)) => Returned(r)
    /\ ~HasHeaderOf(b) => Returned(r)
    /\ Returned(r) =>
           /\ (HasHeaderOf(a) /\ HasHeaderOf(b) /\ Newer(a, b)) => r.header = a.header
           /\ (HasHeaderOf(a) /\ HasHeaderOf(b) /\ Newer(b, a)) => r.header = b.header
           /\ (HasHeaderOf(a) /\ ~HasHeaderOf(b)) => r.header = a.header
           /\ (~HasHeaderOf(a) /\ HasHeaderOf(b)) => r.header = b.header
           /\ (~HasHeaderOf(a) /\ ~HasHeaderOf(b)) => r.header = <<>>

\* C11: the header of A | B is the header of the operand with the strictly
\* larger deck timestamp when both have headers, the header of the operand
\* that has one when exactly one has, and absent when neither has; the union
\* returns whenever each operand's header is absent or carries a timestamp.
C11_HeaderSelection ==
    /\ op = "or" => HeaderSelectedIn(out, self, other)
    /\ rev # NotRun => HeaderSelectedIn(rev, other, self)

C11_Witness ==
    /\ Returned(out)
    /\ Returned(rev)
    /\ self.header = FileHeader("X", 2)
    /\ other.header = FileHeader("Y", 1)
    /\ out.header = self.header
    /\ rev.header = self.header

---------------------------------------------------------------------------
(* Specification SpecUpdate: a source deck `self' and a target deck        *)
(* `other', and self.update_other(other) or self.update_other(None).       *)

InitUpdate ==
    /\ self \in Decks
    /\ other \in Decks
    /\ op = ""
    /\ out = NotRun
    /\ rev = NotRun
    /\ FilterIdle
    /\ FileIdle
    /\ SyncIdle

UpdateOther ==
    /\ op = ""
    /\ out' = update_other(self, other)
    /\ op' = "update_other"
    /\ UNCHANGED <<self, other, rev, kanji, must_include_kanji, file, dest, syncvars>>

UpdateOtherNone ==
    /\ op = ""
    /\ out' = update_other(self, None)
    /\ op' = "update_other_none"
    /\ UNCHANGED <<self, other, rev, kanji, must_include_kanji, file, dest, syncvars>>

NextUpdate == UpdateOther \/ UpdateOtherNone

SpecUpdate == InitUpdate /\ [][NextUpdate]_vars

\* C6: every card of S.update_other(T) whose key occurs in T is T's row for
\* that key (T's study data, not S's and not the emptied copy), and every
\* key of T is in the result.
C6_TargetProgressKept ==
    op = "update_other" =>
        /\ \A i \in 1..Len(out.data) :
               Key(out.data[i]) \in Keys(other.data) => out.data[i] \in Rows(other)
        /\ Keys(other.data) \subseteq Keys(out.data)

C6_Witness ==
    /\ op = "update_other"
    /\ \E xy \in SharedPairs(self, other) : Older(xy[2], xy[1])
    /\ \E xy \in SharedPairs(self, other) :
           xy[1].timestamp # NA /\ xy[2].timestamp = NA

Unstudied(r) == FormatCell(r.study_data) = <<>>

\* C17: every card of S.update_other(T) whose key is not in T is unstudied
\* and has a key of S, every key of S is in the result, and the header is
\* T's; S.update_other(None) holds exactly S's cards, each unstudied, and has
\* no header.
C17_NewCardsUnstudied ==
    /\ op = "update_other" =>
           /\ \A r \in Rows(out) :
                  Key(r) \notin Keys(other.data) =>
                      (Unstudied(r) /\ Key(r) \in Keys(self.data))
           /\ Keys(self.data) \subseteq Keys(out.data)
           /\ out.header = other.header
    /\ op = "update_other_none" =>
           /\ Cards(out.data) = {<<k, <<>> >> : k \in Keys(self.data)}
           /\ Len(out.data) = Len(self.data)
           /\ out.header = <<>>

C17_Witness ==
    /\ op = "update_other"
    /\ other.header = FileHeader("Y", 1)
    /\ Len(other.data) = 1
    /\ other.data[1].question = KEY_MOUNTAIN[1]
    /\ \E x \in Rows(self) : Key(x) = KEY_TREE /\ x.timestamp # NA
    /\ \E r \in Rows(out) : Key(r) = KEY_TREE /\ Unstudied(r)

---------------------------------------------------------------------------
(* Specification SpecFilter: a deck and D.filter_kanji(kanji, flag).       *)

\* the questions of the decks that are filtered
Questions ==
    {<<"kanji1">>, <<"kanji2">>, <<"kana">>, <<"kanji1", "kanji2">>,
     <<"kanji1", "kana">>, <<"kana", "kanji2">>, <<"kana", "kana">>, <<"null">>}

QuestionRows(q) == {<<>>} \cup {<<RowLine(<<q, <<"on">>, <<>>, <<"answer">> >>, sd)>> : sd \in {<<>>, Stamped(1, "abc")}}

\* decks of at most two cards, loaded from files with a header
FilterDecks ==
    {load(FileHeader("X", 1) \o r1 \o r2) :
        r1 \in UNION {QuestionRows(q) : q \in Questions},
        r2 \in UNION {QuestionRows(q) : q \in Questions}}

InitFilter ==
    /\ self \in FilterDecks
    /\ UniqueKeys(self.data)
    /\ kanji \in SUBSET Chars
    /\ must_include_kanji \in BOOLEAN
    /\ other = None
    /\ op = ""
    /\ out = NotRun
    /\ rev = NotRun
    /\ FileIdle
    /\ SyncIdle

FilterKanji ==
    /\ op = ""
    /\ out' = filter_kanji(self, kanji, must_include_kanji)
    /\ op' = "filter_kanji"
    /\ UNCHANGED <<self, other, rev, kanji, must_include_kanji, file, dest, syncvars>>

NextFilter == FilterKanji

SpecFilter == InitFilter /\ [][NextFilter]_vars

KanjiOf(q) == {q[i] : i \in {j \in 1..Len(q) : is_kanji(q[j])}}

\* C8: the filtered deck holds a row of D exactly when every kanji of its
\* question is allowed and, with the flag set, the question has a kanji; the
\* rows kept are rows of D, each once and in D's order; the header is D's.
C8_FilterKeepsQualifying ==
    (op = "filter_kanji" /\ Returned(out)) =>
        /\ \A x \in Rows(self) :
               x \in Rows(out) <=>
                   /\ KanjiOf(x.question) \subseteq kanji
                   /\ must_include_kanji => KanjiOf(x.question) # {}
        /\ Rows(out) \subseteq Rows(self)
        /\ UniqueKeys(out.data)
        /\ out.header = self.header

C8_Witness ==
    /\ op = "filter_kanji"
    /\ Returned(out)
    /\ must_include_kanji
    /\ Len(self.data) = 2
    /\ Len(out.data) = 1
    /\ "kana" \notin kanji
    /\ \E x \in Rows(self) : KanjiOf(x.question) = {} /\ x \notin Rows(out)
    /\ \E x \in Rows(out) : x.question = <<"kanji1", "kana">>

---------------------------------------------------------------------------
(* Specification SpecFile: a deck file is loaded and the deck is saved to  *)
(* a new file.                                                             *)

\* a card whose answer is the word "null"
KEY_NULL == << <<"kana">>, <<"nai">>, <<>>, <<"null">> >>

FileRowSeqs ==
    {r \o r3 : r \in RowLineSeqs, r3 \in {<<>>, <<RowLine(KEY_NULL, <<>>)>>}}

\* well-formed deck files: an optional header, then rows of five fields
WellFormedFiles == {h \o rows : h \in FileHeaders \cup {<<>>}, rows \in FileRowSeqs}

HasHeader(lines) == Len(lines) >= 2 /\ StartsWithDashes(lines[2])

\* study data whose leading segment is not a number: "[x_abc]"
MALFORMED == <<"[", "x", "_", "abc", "]">>

\* deck files with a header in which one card carries malformed study data
MalformedFiles ==
    {FileHeader("X", 1) \o <<RowLine(KEY_TREE, MALFORMED)>> \o rows :
        rows \in RowLines(KEY_MOUNTAIN)}

InitFile ==
    /\ file \in WellFormedFiles \cup MalformedFiles
    /\ dest = <<>>
    /\ self = None
    /\ other = None
    /\ op = ""
    /\ out = NotRun
    /\ rev = NotRun
    /\ FilterIdle
    /\ SyncIdle

Load ==
    /\ op = ""
    /\ out' = load(file)
    /\ op' = "load"
    /\ UNCHANGED <<self, other, rev, kanji, must_include_kanji, file, dest, syncvars>>

Save ==
    /\ op = "load"
    /\ Returned(out)
    /\ dest' = save(out, dest)
    /\ op' = "save"
    /\ UNCHANGED <<self, other, out, rev, kanji, must_include_kanji, file, syncvars>>

NextFile == Load \/ Save

SpecFile == InitFile /\ [][NextFile]_vars

\* C7: loading a well-formed deck file and saving the deck to a fresh
\* destination writes the lines of the file: the header once if there is
\* one, then each card row once, in order.
C7_RoundTrip == op = "save" => dest = file

\* C15: when line 2 of the file starts with the dash run, the loaded deck's
\* header is the first two lines and its rows are the remaining lines; when
\* it does not, the deck has no header and its rows are all the lines; either
\* way every line of the file is in the deck exactly once.
C15_SentinelDecidesHeader ==
    (op # "" /\ Returned(out)) =>
        /\ HasHeader(file) =>
               /\ out.header = <<file[1], file[2]>>
               /\ Len(out.data) = Len(file) - 2
        /\ ~HasHeader(file) =>
               /\ out.header = <<>>
               /\ Len(out.data) = Len(file)
        /\ Len(out.header) + Len(out.data) = Len(file)

\* C21: a deck file of two lines or more loads also when a card's study data
\* has a leading segment that is not a number, and that card then has no
\* timestamp.
C21_MalformedTolerated ==
    (op # "" /\ Len(file) >= 2) =>
        /\ Returned(out)
        /\ \A r \in Rows(out) : r.study_data = MALFORMED => r.timestamp = NA

---------------------------------------------------------------------------
(* Specification SpecSave: a deck is saved to a destination that may hold  *)
(* earlier content; `file' keeps the content the destination had before.   *)

\* what the destination holds before the save: nothing, or an earlier deck
OldContents ==
    {<<>>,
     <<RowLine(KEY_NULL, <<>>)>>,
     FileHeader("Y", 1) \o <<RowLine(KEY_TREE, Stamped(1, "def"))>>}

\* the lines save writes, in the order it writes them
Written(d) == d.header \o [i \in 1..Len(d.data) |-> FormatRow(d.data[i])]

\* the content of outfile when an error ends save part-way: before the
\* file is opened it is `existing'; open(outfile, 'w') empties it; then the
\* lines written so far follow (after whatever is there, without a header)
SaveInterrupted(d, existing) ==
    {existing} \cup
    {(IF d.header # <<>> THEN <<>> ELSE existing) \o SubSeq(Written(d), 1, k) :
        k \in 0..(Len(Written(d)) - 1)}

InitSave ==
    /\ self \in Decks
    /\ file \in OldContents
    /\ dest = file
    /\ other = None
    /\ op = ""
    /\ out = NotRun
    /\ rev = NotRun
    /\ FilterIdle
    /\ SyncIdle

\* self.save(outfile) returns
SaveTo ==
    /\ op = ""
    /\ dest' = save(self, dest)
    /\ op' = "save_to"
    /\ UNCHANGED <<self, other, out, rev, kanji, must_include_kanji, file, syncvars>>

\* self.save(outfile) raises (an OSError of open or of a write)
SaveRaises ==
    /\ op = ""
    /\ dest' \in SaveInterrupted(self, dest)
    /\ op' = "save_raised"
    /\ UNCHANGED <<self, other, out, rev, kanji, must_include_kanji, file, syncvars>>

NextSave == SaveTo \/ SaveRaises

SpecSave == InitSave /\ [][NextSave]_vars

\* C16: after save the destination holds the deck's header lines, if it has
\* a header, followed by exactly the deck's card rows, whatever the
\* destination held before.
C16_SaveWritesDeck == op = "save_to" => dest = Written(self)

\* C20: when an error ends a save, the deck file holds either all of what it
\* held before or all of the new deck (header and every row).
C20_AllOrNothing ==
    op = "save_raised" => (dest = file \/ dest = save(self, file))

---------------------------------------------------------------------------
(* Specification SpecSync: one run of sync-subsets over three decks.       *)

DeckOrder == <<"G", "P", "C">>

DeckNames == {DeckOrder[i] : i \in 1..Len(DeckOrder)}

\* a second card with all of its identity fields filled
KEY_RIVER == << <<"kanji2">>, <<"sen">>, <<"kawa">>, <<"river">> >>

\* the rows of a deck file of the run: the tree card (unstudied or stamped)
\* and the river card (unstudied), at least one of them
SyncRowSeqs ==
    {r1 \o r2 :
        r1 \in {<<>>} \cup {<<RowLine(KEY_TREE, sd)>> :
                               sd \in {<<>>} \cup {Stamped(t, "abc") : t \in 1..MaxStamp}},
        r2 \in {<<>>, <<RowLine(KEY_RIVER, <<>>)>>}} \ {<<>>}

\* marks a deck that has no file
NoFile == << << <<"no file">> >> >>

\* the deck whose file may be a bare card table (no header lines)
BareDeck == "C"

\* deck files without header: two card rows
BareSyncFiles == {rows \in SyncRowSeqs : Len(rows) = 2}

SyncFiles(name) ==
    {FileHeader(name, 1) \o rows : rows \in SyncRowSeqs}
        \cup (IF name = BareDeck THEN BareSyncFiles ELSE {})

\* the deck directories of the run
Directories ==
    {[n \in {m \in DeckNames : choice[m] # NoFile} |-> choice[n]] :
        choice \in {c \in [DeckNames -> UNION {SyncFiles(n) : n \in DeckNames} \cup {NoFile}] :
                       \A n \in DeckNames : c[n] = NoFile \/ c[n] \in SyncFiles(n)}}

\* the mappings of the JSON file: every deck with a list of subdecks
SubsetMappings ==
    {[i \in 1..Len(DeckOrder) |-> <<DeckOrder[i], Pick(DeckOrder, sel[i])>>] :
        sel \in [1..Len(DeckOrder) -> SUBSET (1..Len(DeckOrder))]}

InitSync ==
    /\ subsets \in SubsetMappings
    /\ files \in Directories
    /\ files0 = files
    /\ files1 = <<>>
    /\ pc = "start"
    /\ parents = <<>>
    /\ pairs = <<>>
    /\ log = <<>>
    /\ run = 1
    /\ self = None
    /\ other = None
    /\ op = ""
    /\ out = NotRun
    /\ rev = NotRun
    /\ FilterIdle
    /\ FileIdle

\* main up to the Pass 1 loop: the graph is built and asserted acyclic
Start ==
    /\ pc = "start"
    /\ IF is_directed_acyclic_graph(DiGraph(subsets))
       THEN pc' = "pass1" /\ parents' = Pass1Parents(subsets)
       ELSE pc' = "failed" /\ UNCHANGED parents
    /\ UNCHANGED <<opvars, subsets, files, pairs, files0, files1, log, run>>

\* one iteration of the Pass 1 loop
Pass1Step ==
    /\ pc = "pass1"
    /\ parents # <<>>
    /\ \E o \in sync_children_to_parents(files, Head(parents), Subdecks(subsets, Head(parents))) :
           /\ files' = o.files
           /\ log' = log \o o.events
           /\ IF o.raised
              THEN pc' = "failed" /\ UNCHANGED parents
              ELSE pc' = "pass1" /\ parents' = Tail(parents)
    /\ UNCHANGED <<opvars, subsets, pairs, files0, files1, run>>

\* LOGGER.info('Syncing parents to children'), as an entry of the log
SyncingParentsToChildren == <<"info", "Syncing parents to children">>

\* the Pass 1 loop is over: the message is logged and dg = dg.reverse()
Pass1Done ==
    /\ pc = "pass1"
    /\ parents = <<>>
    /\ pc' = "pass2"
    /\ files1' = files
    /\ log' = Append(log, SyncingParentsToChildren)
    /\ pairs' = Pass2Pairs(subsets)
    /\ UNCHANGED <<opvars, subsets, files, parents, files0, run>>

\* one call of sync_parent_to_child in the Pass 2 loops
Pass2Step ==
    /\ pc = "pass2"
    /\ pairs # <<>>
    /\ \E o \in sync_parent_to_child(files, Head(pairs)[1], Head(pairs)[2]) :
           /\ files' = o.files
           /\ log' = log \o o.events
           /\ IF o.raised
              THEN pc' = "failed" /\ UNCHANGED pairs
              ELSE pc' = "pass2" /\ pairs' = Tail(pairs)
    /\ UNCHANGED <<opvars, subsets, parents, files0, files1, run>>

\* the Pass 2 loops are over: main returns
Pass2Done ==
    /\ pc = "pass2"
    /\ pairs = <<>>
    /\ pc' = "done"
    /\ UNCHANGED <<opvars, subsets, files, parents, pairs, files0, files1, log, run>>

NextSync == Start \/ Pass1Step \/ Pass1Done \/ Pass2Step \/ Pass2Done

SpecSync == InitSync /\ [][NextSync]_vars

---------------------------------------------------------------------------
(* Properties of a sync-subsets run, checked under SpecSync.               *)

\* the study data fields of the rows of a deck file that carry the key k
StudyDataOf(lines, k) ==
    {lines[i][5] : i \in {j \in 1..Len(lines) :
                             Len(lines[j]) = 5 /\ SubSeq(lines[j], 1, 4) = k}}

\* the only declared subdeck relation is: p has the single child c
SingleChild(p, c) ==
    \A i \in 1..Len(subsets) :
        subsets[i][2] = IF subsets[i][1] = p THEN <<c>> ELSE <<>>

\* before the run p's file holds the tree card with study data s, and c's
\* file holds the tree card without study data
ParentStudiedChildNot(p, c, s) ==
    /\ SingleChild(p, c)
    /\ p \in DOMAIN files0
    /\ c \in DOMAIN files0
    /\ StudyDataOf(files0[p], KEY_TREE) = {s}
    /\ StudyDataOf(files0[c], KEY_TREE) = {<<>>}

StampedData == {Stamped(t, "abc") : t \in 1..MaxStamp}

\* C3: with parent P declared to have the single child C, P's file holding
\* card k with stamped study data s and C's file holding k unstudied, P's
\* card k still has s after Pass 1, and C's card k has s after Pass 2.
C3_ProgressFlowsDown ==
    \A s \in StampedData :
        ParentStudiedChildNot("P", "C", s) =>
            /\ files1 # <<>> => StudyDataOf(files1["P"], KEY_TREE) = {s}
            /\ pc = "done" => StudyDataOf(files["C"], KEY_TREE) = {s}

\* the decks a deck of S declares as subdecks
DeclaredChildren(S) ==
    UNION {{subsets[i][2][j] : j \in 1..Len(subsets[i][2])} :
              i \in {k \in 1..Len(subsets) : subsets[k][1] \in S}}

RECURSIVE Descendants(_, _)
Descendants(S, n) ==
    IF n = 0 THEN S ELSE Descendants(S \cup DeclaredChildren(S), n - 1)

\* some deck is its own descendant in the declared mapping
HasCycle ==
    \E d \in DeckNames : d \in Descendants(DeclaredChildren({d}), Len(subsets))

\* C9: when the declared mapping has a cycle, the run fails before Pass 1
\* starts: it never leaves the start but by failing, no deck file is loaded
\* or saved, and every deck file is as it was.
C9_CycleRejected ==
    HasCycle =>
        /\ pc \in {"start", "failed"}
        /\ files = files0
        /\ log = <<>>

C9_Witness ==
    /\ pc = "failed"
    /\ DOMAIN files0 = DeckNames
    /\ subsets = << <<"G", <<"P">> >>, <<"P", <<"G", "C">> >>, <<"C", <<>> >> >>

\* the card rows of a deck file: all lines but the two of a header
CardLines(lines) == IF HasHeader(lines) THEN SubSeq(lines, 3, Len(lines)) ELSE lines

LineKey(l) == SubSeq(l, 1, 4)

FileKeys(lines) == {LineKey(CardLines(lines)[i]) : i \in 1..Len(CardLines(lines))}

\* no two card rows of the file share their identity key
UniqueFileKeys(lines) ==
    \A i, j \in 1..Len(CardLines(lines)) :
        LineKey(CardLines(lines)[i]) = LineKey(CardLines(lines)[j]) => i = j

\* C12: the deck files of the run having unique identity keys at the start,
\* every deck file written by Pass 1 and Pass 2 has unique identity keys.
C12_KeysStayUnique ==
    (\A n \in DOMAIN files0 : UniqueFileKeys(files0[n]))
        => \A n \in DOMAIN files : UniqueFileKeys(files[n])

\* the declared subdecks of the i-th entry of the mapping
ChildrenOf(i) == {subsets[i][2][j] : j \in 1..Len(subsets[i][2])}

\* C13: at the end of Pass 1 the keys stored for every deck with a non-empty
\* declared child list are exactly the keys stored for its children (so a
\* key of the parent's previous file that no child has is gone, and the keys
\* of a deck are in each of its ancestors).
C13_ParentIsKeyUnion ==
    files1 # <<>> =>
        \A i \in 1..Len(subsets) :
            subsets[i][2] # <<>> =>
                FileKeys(files1[subsets[i][1]])
                    = UNION {FileKeys(files1[c]) : c \in ChildrenOf(i)}

C13_Witness ==
    /\ files1 # <<>>
    /\ subsets = << <<"G", <<"P">> >>, <<"P", <<"C">> >>, <<"C", <<>> >> >>
    /\ DOMAIN files0 = DeckNames
    /\ FileKeys(files0["C"]) = {KEY_TREE}
    /\ FileKeys(files0["P"]) = {KEY_RIVER}
    /\ FileKeys(files0["G"]) = {KEY_TREE, KEY_RIVER}
    /\ FileKeys(files1["G"]) = {KEY_TREE}

\* C14: from the end of Pass 1 on, every deck file keeps the set of identity
\* keys Pass 1 left it with (Pass 2 adds no card to a child and removes
\* none), and each call of Pass 2 finds every key of the child in the parent.
C14_Pass2KeepsKeys ==
    pc \in {"pass2", "done"} =>
        /\ DOMAIN files = DOMAIN files1
        /\ \A n \in DOMAIN files : FileKeys(files[n]) = FileKeys(files1[n])
        /\ pairs # <<>> =>
               /\ Head(pairs)[1] \in DOMAIN files
               /\ Head(pairs)[2] \in DOMAIN files
               /\ FileKeys(files[Head(pairs)[2]]) \subseteq FileKeys(files[Head(pairs)[1]])

C14_Witness ==
    /\ pc = "done"
    /\ subsets = << <<"G", <<"P", "C">> >>, <<"P", <<>> >>, <<"C", <<>> >> >>
    /\ files["P"] # files1["P"]
    /\ FileKeys(files1["G"]) = {KEY_TREE, KEY_RIVER}
    /\ FileKeys(files1["P"]) = {KEY_TREE}
    /\ FileKeys(files["P"]) = {KEY_TREE}

\* the declared mapping is the chain g > p > c and nothing else
Chain(g, p, c) ==
    \A i \in 1..Len(subsets) :
        subsets[i][2] = IF subsets[i][1] = g THEN <<p>>
                        ELSE IF subsets[i][1] = p THEN <<c>> ELSE <<>>

\* the file has a header and its only card is the tree card, stamped with t
OnlyTreeStamped(lines, t) ==
    /\ HasHeader(lines)
    /\ FileKeys(lines) = {KEY_TREE}
    /\ StudyDataOf(lines, KEY_TREE) = {Stamped(t, "abc")}

\* every Pass 2 call that remains comes after every call that updates its
\* parent deck
ParentsUpdatedFirst ==
    \A i, j \in 1..Len(pairs) : i < j => pairs[j][2] # pairs[i][1]

\* C18: Pass 2 starts only when the Pass 1 loop is over and starts from the
\* files Pass 1 left; a deck is the parent of a Pass 2 call only after the
\* calls that update it from its own parents; and in a chain G > P > C whose
\* cards are all stamped, the study data of G's card, G's timestamp being
\* the strictly greatest, is in P and in C when the run ends.
C18_Pass2TopDown ==
    /\ pc \in {"pass2", "done"} => parents = <<>>
    /\ (pc = "pass2" /\ log[Len(log)] = SyncingParentsToChildren) => files = files1
    /\ pc = "pass2" => ParentsUpdatedFirst
    /\ pc = "done" =>
           \A g, p, c \in DeckNames : \A tg, tp, tc \in 1..MaxStamp :
               (/\ Chain(g, p, c)
                /\ DOMAIN files0 = DeckNames
                /\ OnlyTreeStamped(files0[g], tg)
                /\ OnlyTreeStamped(files0[p], tp)
                /\ OnlyTreeStamped(files0[c], tc)
                /\ tg > tp
                /\ tg > tc)
                   => /\ StudyDataOf(files[p], KEY_TREE) = {Stamped(tg, "abc")}
                      /\ StudyDataOf(files[c], KEY_TREE) = {Stamped(tg, "abc")}

C18_Witness ==
    /\ pc = "done"
    /\ Chain("G", "P", "C")
    /\ DOMAIN files0 = DeckNames
    /\ OnlyTreeStamped(files0["G"], 2)
    /\ OnlyTreeStamped(files0["P"], 1)
    /\ OnlyTreeStamped(files0["C"], 1)
    /\ OnlyTreeStamped(files["C"], 2)

\* the position of the message that opens Pass 2, 0 while it is not logged
Pass2Mark ==
    IF \E i \in 1..Len(log) : log[i] = SyncingParentsToChildren
    THEN CHOOSE i \in 1..Len(log) : log[i] = SyncingParentsToChildren
    ELSE 0

\* the loads and saves of Pass 1, and those of Pass 2
Pass1Log == IF Pass2Mark = 0 THEN log ELSE SubSeq(log, 1, Pass2Mark - 1)

Pass2Log == IF Pass2Mark = 0 THEN <<>> ELSE SubSeq(log, Pass2Mark + 1, Len(log))

\* no load comes after a save
LoadsBeforeSaves(l) ==
    \A i, j \in 1..Len(l) : (i < j /\ l[i][1] = "save") => l[j][1] # "load"

Logged == SubSeq(log', Len(log) + 1, Len(log'))

---------------------------------------------------------------------------
(* Specification SpecRerun: sync-subsets is run, and then run once more on *)
(* the files the first run left.                                           *)

\* the rows of a deck file of the two runs: the tree card (unstudied,
\* stamped, or stamped 1 with other study data) and the river card
RerunRowSeqs ==
    {r1 \o r2 :
        r1 \in {<<>>} \cup {<<RowLine(KEY_TREE, sd)>> :
                               sd \in {<<>>, Stamped(1, "def")}
                                        \cup {Stamped(t, "abc") : t \in 1..MaxStamp}},
        r2 \in {<<>>, <<RowLine(KEY_RIVER, <<>>)>>}} \ {<<>>}

\* the deck whose header may carry a later deck timestamp than the others
StampedDeck == "P"

\* deck files with a header
RerunFiles(name) ==
    {FileHeader(name, t) \o rows :
        t \in IF name = StampedDeck THEN 1..MaxStamp ELSE {1},
        rows \in RerunRowSeqs}

RerunDirectories ==
    {[n \in {m \in DeckNames : choice[m] # NoFile} |-> choice[n]] :
        choice \in {c \in [DeckNames -> UNION {RerunFiles(n) : n \in DeckNames} \cup {NoFile}] :
                       \A n \in DeckNames : c[n] = NoFile \/ c[n] \in RerunFiles(n)}}

\* the acyclic mappings
AcyclicMappings == {m \in SubsetMappings : is_directed_acyclic_graph(DiGraph(m))}

InitRerun ==
    /\ subsets \in AcyclicMappings
    /\ files \in RerunDirectories
    /\ files0 = files
    /\ files1 = <<>>
    /\ pc = "start"
    /\ parents = <<>>
    /\ pairs = <<>>
    /\ log = <<>>
    /\ run = 1
    /\ self = None
    /\ other = None
    /\ op = ""
    /\ out = NotRun
    /\ rev = NotRun
    /\ FilterIdle
    /\ FileIdle

\* the program is started again on the same mapping and the files as they are
Rerun ==
    /\ pc = "done"
    /\ run = 1
    /\ run' = 2
    /\ pc' = "start"
    /\ files0' = files
    /\ files1' = <<>>
    /\ log' = <<>>
    /\ UNCHANGED <<opvars, subsets, files, parents, pairs>>

NextRerun == NextSync \/ Rerun

SpecRerun == InitRerun /\ [][NextRerun]_vars

\* the cards of a deck file: identity key and study data
FileCards(lines) ==
    {<<LineKey(CardLines(lines)[i]), CardLines(lines)[i][5]>> :
        i \in 1..Len(CardLines(lines))}

HeaderOfFile(lines) == IF HasHeader(lines) THEN SubSeq(lines, 1, 2) ELSE <<>>

\* C22: when a second complete run ends, every deck file has the cards and
\* the header it had when the first run ended.
C22_RerunIsNoOp ==
    (run = 2 /\ pc = "done") =>
        /\ DOMAIN files = DOMAIN files0
        /\ \A n \in DOMAIN files :
               /\ FileCards(files[n]) = FileCards(files0[n])
               /\ HeaderOfFile(files[n]) = HeaderOfFile(files0[n])

\* C23 (checked under SpecSync): every deck file that had a header before
\* the run has that same header after each step of Pass 1 and of Pass 2.
C23_HeadersStay ==
    \A n \in DOMAIN files0 :
        HasHeader(files0[n]) => HeaderOfFile(files[n]) = HeaderOfFile(files0[n])

=============================================================================
